---- MODULE Spec2Model ----
(***************************************************************************)
(* testingview: a walk-forward backtesting engine.                         *)
(*                                                                         *)
(* StrategyBase (src/testingview/strategybase.py) replays a table of bars  *)
(* prefix by prefix and collects one Action per bar; BacktestRun           *)
(* (src/testingview/strategyrun.py) turns the Actions into a ledger that   *)
(* it writes, column by column, into the table it holds.                   *)
(*                                                                         *)
(* Numbers are exact rationals <<n, d>> (d > 0); the undefined value       *)
(* (None / NaN) is the empty tuple.  A table is a record                   *)
(*   [index |-> timestamps, close |-> closes, cols |-> added columns]      *)
(* and the DataFrame objects that several Python names can refer to live   *)
(* in the variable heap, keyed by object identity.                         *)
(***************************************************************************)
EXTENDS Integers, Sequences, FiniteSets, TLC

\* ------------------------------------------------------------------ bounds
MaxBars == 4
MaxRuns == 2
MaxObs == 3

\* ------------------------------------------------------- program constants
Warmup == 2
DefaultCash == 50000
DefaultSize == 100
DefaultComm == 0
DefaultAmount == 1

\* ------------------------------------------------------------------ values
NaN == <<>>
Num(n) == <<n, 1>>
IsNaN(x) == Len(x) = 0
Abs(n) == IF n < 0 THEN -n ELSE n

\* float comparison: any comparison with NaN is false
Lt(x, y) == ~IsNaN(x) /\ ~IsNaN(y) /\ x[1] * y[2] < y[1] * x[2]
Le(x, y) == ~IsNaN(x) /\ ~IsNaN(y) /\ x[1] * y[2] <= y[1] * x[2]
NumEq(x, y) == ~IsNaN(x) /\ ~IsNaN(y) /\ x[1] * y[2] = y[1] * x[2]

\* float arithmetic: NaN propagates
Add(x, y) == IF IsNaN(x) \/ IsNaN(y) THEN NaN
             ELSE IF x[2] = y[2] THEN <<x[1] + y[1], x[2]>>
             ELSE <<x[1] * y[2] + y[1] * x[2], x[2] * y[2]>>
Neg(x) == IF IsNaN(x) THEN NaN ELSE <<-x[1], x[2]>>
Sub(x, y) == Add(x, Neg(y))
Mul(x, y) == IF IsNaN(x) \/ IsNaN(y) THEN NaN ELSE <<x[1] * y[1], x[2] * y[2]>>
AbsV(x) == IF IsNaN(x) THEN NaN ELSE <<Abs(x[1]), x[2]>>
Bool(b) == IF b THEN Num(1) ELSE Num(0)

\* ------------------------------------------------- pandas Series operators
\* element-wise s - t, s + t and abs(s)
SubSeries(s, t) == [k \in 1..Len(s) |-> Sub(s[k], t[k])]
AddSeries(s, t) == [k \in 1..Len(s) |-> Add(s[k], t[k])]
AbsSeries(s) == [k \in 1..Len(s) |-> AbsV(s[k])]

\* Series.shift(): every value moves one bar later, bar 0 becomes NaN
Shift(s) == [k \in 1..Len(s) |-> IF k = 1 THEN NaN ELSE s[k - 1]]

\* Series.diff(): s[t] - s[t-1], NaN at bar 0
Diff(s) == SubSeries(s, Shift(s))

\* Series.fillna(v)
Fillna(s, v) == [k \in 1..Len(s) |-> IF IsNaN(s[k]) THEN v ELSE s[k]]

\* Series.fillna(method='ffill'): an undefined value takes the last defined one
RECURSIVE FfillAt(_, _)
FfillAt(s, k) == IF k = 0 THEN NaN
                 ELSE IF ~IsNaN(s[k]) THEN s[k]
                 ELSE FfillAt(s, k - 1)
Ffill(s) == [k \in 1..Len(s) |-> FfillAt(s, k)]

\* Series.cumsum()
RECURSIVE SumTo(_, _)
SumTo(s, k) == IF k = 0 THEN Num(0) ELSE Add(SumTo(s, k - 1), s[k])
Cumsum(s) == [k \in 1..Len(s) |-> IF k = 1 THEN s[1] ELSE SumTo(s, k)]

\* Series.max()
RECURSIVE MaxTo(_, _)
MaxTo(s, k) == IF k = 1 THEN s[1]
               ELSE LET m == MaxTo(s, k - 1) IN IF Lt(m, s[k]) THEN s[k] ELSE m

\* ---------------------------------------------------------------- tables
Table(index, close, cols) == [index |-> index, close |-> close, cols |-> cols]
NRows(t) == Len(t.close)
HasCol(t, name) == \E k \in 1..Len(t.cols) : t.cols[k].name = name
Col(t, name) == t.cols[CHOOSE k \in 1..Len(t.cols) : t.cols[k].name = name].val


\* a column holds its values: Series(f) is f as a sequence of values
Series(f) == SubSeq(f, 1, Len(f))

\* df[name] = val : replaces the column when it exists, adds it otherwise
SetCol(t, name, val) ==
    IF HasCol(t, name)
    THEN [t EXCEPT !.cols = Series([k \in 1..Len(t.cols) |->
             IF t.cols[k].name = name THEN [name |-> name, val |-> Series(val)]
             ELSE t.cols[k]])]
    ELSE [t EXCEPT !.cols = Append(t.cols, [name |-> name, val |-> Series(val)])]

\* pd.concat([df, column], axis=1): always adds a column, even under a name
\* the table already has
ConcatCol(t, name, val) ==
    [t EXCEPT !.cols = Append(t.cols, [name |-> name, val |-> Series(val)])]

\* df.iloc[:k, ] : the first k rows of every column
Prefix(s, k) == SubSeq(s, 1, IF k < Len(s) THEN k ELSE Len(s))
Iloc(t, k) == [index |-> Prefix(t.index, k),
               close |-> Prefix(t.close, k),
               cols |-> [c \in 1..Len(t.cols) |->
                           [name |-> t.cols[c].name, val |-> Prefix(t.cols[c].val, k)]]]

\* ------------------------------------------------------------- strategy
\* Actions: long() = 1, offset() = 0, short() = -1, no return value = None
Long == Num(1)
Offset == Num(0)
Short == Num(-1)
Actions == {NaN, Long, Offset, Short}

\* crossover(series1, series2): series[-2] and series[-1] are read, which
\* raises IndexError on a series of fewer than two observations; the method
\* returns True in the one case and falls off its end (None) otherwise
Crossover(series1, series2) ==
    IF Len(series1) < 2 \/ Len(series2) < 2 THEN "IndexError"
    ELSE IF Lt(series1[Len(series1) - 1], series2[Len(series2) - 1])
            /\ Lt(series2[Len(series2)], series1[Len(series1)])
         THEN "True" ELSE "None"

\* The strategies of simple_example.py / main.py: two moving averages of the
\* close, here with the periods of Kinds.  SMA(close, p)[t] is the mean of
\* the last p closes and NaN while fewer than p closes are visible.
RECURSIVE SumLast(_, _, _)
SumLast(s, k, p) == IF p = 0 THEN 0 ELSE s[k][1] + SumLast(s, k - 1, p - 1)
SMA(close, p) == [k \in 1..Len(close) |->
                    IF k < p THEN NaN ELSE <<SumLast(close, k, p), p>>]
Kinds == {[fast |-> 1, slow |-> 2], [fast |-> 2, slow |-> 3]}
StrategyName(kind) == "SMA"

\* the legend name ind() derives: func name, 'c' for the close column, period
IndName(p) == CASE p = 1 -> "SMA(c,1)" [] p = 2 -> "SMA(c,2)"
                [] p = 3 -> "SMA(c,3)" [] OTHER -> "SMA(c,n)"

\* A strategy object while a method runs on it:
\*   data = self._data, base = self.__data, ind = self._indicators,
\*   err = the exception raised ("" when none)
\* ind(func, *args) with value = func(*args): the shape check against the
\* visible table, then the recording, only when the value is as long as the
\* table the strategy was constructed with.
Ind(st, name, value) ==
    IF st.err # "" THEN st
    ELSE IF Len(value) # NRows(st.data) THEN [st EXCEPT !.err = "ValueError"]
    ELSE IF Len(value) = NRows(st.base)
         THEN [st EXCEPT !.ind = Append(@, [name |-> name, val |-> value,
                                             index |-> st.data.index]),
                         !.data = ConcatCol(@, name, value)]
         ELSE st

\* What func(*args) of an ind() call does: it raises, or returns None, a
\* DataFrame, or something np.asarray turns into an array of 0, 1 or 2
\* dimensions.  rows holds the entries: <<v>> for a 1-dimensional v, the rows
\* of a 2-dimensional array or of a DataFrame, <<<<x>>>> for a scalar x.
Raised == [kind |-> "raise", ndim |-> 0, rows |-> <<>>]
None == [kind |-> "none", ndim |-> 0, rows |-> <<>>]
Array(ndim, rows) == [kind |-> "array", ndim |-> ndim, rows |-> rows]
Array1(val) == Array(1, <<val>>)
Frame(rows) == [kind |-> "frame", ndim |-> 2, rows |-> rows]
Shape(v) == CASE v.ndim = 0 -> <<>>
              [] v.ndim = 1 -> <<Len(v.rows[1])>>
              [] OTHER -> <<Len(v.rows), Len(v.rows[1])>>
Transpose(v) ==
    IF v.ndim < 2 THEN v
    ELSE Array(2, [c \in 1..Len(v.rows[1]) |->
                     [r \in 1..Len(v.rows) |-> v.rows[r][c]]])
\* np.argmax(shape): the position of the first largest entry
ArgMax(shape) == IF Len(shape) = 2 /\ shape[1] < shape[2] THEN 1 ELSE 0

\* ind(), lines 108-118: a DataFrame becomes value.values.T, anything else
\* but None goes through np.asarray; the array is transposed when its first
\* dimension is (one of) the largest
Value(result) ==
    LET value == IF result.kind = "frame" THEN Transpose(Array(2, result.rows))
                 ELSE result
    IN IF value.kind = "array" /\ ArgMax(Shape(value)) = 0 THEN Transpose(value)
       ELSE value

\* ind(), lines 102-131, result being what func(*args) does.  np.argmax of
\* the empty shape of a 0-dimensional array raises ValueError (line 117);
\* pd.DataFrame(value, index=..., columns=[name]) raises ValueError on a
\* 2-dimensional value of more than one column (line 128).
IndCall(st, name, result) ==
    IF st.err # "" THEN st
    ELSE IF result.kind = "raise" THEN [st EXCEPT !.err = "RuntimeError"]
    ELSE IF result.kind = "array" /\ result.ndim = 0
    THEN [st EXCEPT !.err = "ValueError: argmax"]
    ELSE LET value == Value(result)
             shape == Shape(value)
         IN IF value.kind = "none" \/ shape[Len(shape)] # NRows(st.data)
            THEN [st EXCEPT !.err = "ValueError: shape"]
            ELSE IF value.ndim = 1 THEN Ind(st, name, value.rows[1])
            ELSE IF shape[1] = NRows(st.base) /\ shape[2] # 1
            THEN [st EXCEPT !.err = "ValueError: DataFrame"]
            ELSE st

\* The indicator function of a strategy class: ta.SMA on the visible closes.
\* A class with a raiseAt field has a step ("ind": the indicator function,
\* "next": the decision) that raises when that many bars are visible, every
\* time or, with once, the first time only.
Faulty(kind, step, n) ==
    "raiseAt" \in DOMAIN kind /\ kind.step = step /\ kind.raiseAt = n
Func(kind, p, close) ==
    IF Faulty(kind, "ind", Len(close)) THEN Raised
    ELSE Array1(SMA(close, p))

\* set_indicators(): self.sma5 = self.ind(ta.SMA, self.data.close, 5)
\*                   self.sma20 = self.ind(ta.SMA, self.data.close, 20)
SetIndicators(st, kind) ==
    LET fast == Func(kind, kind.fast, st.data.close)
        st1 == IndCall(st, IndName(kind.fast), fast)
        slow == Func(kind, kind.slow, st1.data.close)
        st2 == IndCall(st1, IndName(kind.slow), slow)
    IN [st |-> st2,
        attr |-> IF st2.err = "" THEN [fast |-> Value(fast).rows[1],
                                       slow |-> Value(slow).rows[1]]
                 ELSE [fast |-> <<>>, slow |-> <<>>]]

\* next(): long on the fast average crossing over the slow one, short on the
\* opposite cross, None otherwise
NextAction(attr) ==
    LET up == Crossover(attr.fast, attr.slow)
    IN IF up = "IndexError" THEN "IndexError"
       ELSE IF up = "True" THEN Long
       ELSE LET down == Crossover(attr.slow, attr.fast)
            IN IF down = "True" THEN Short ELSE NaN

StrategyNext(kind, attr, n) ==
    IF Faulty(kind, "next", n) THEN "Exception" ELSE NextAction(attr)
Recovered(kind) ==
    IF "raiseAt" \in DOMAIN kind /\ kind.once
    THEN [fast |-> kind.fast, slow |-> kind.slow]
    ELSE kind

\* _sig, line 193: self._data = _d_f.iloc[:i + 1, ]
VisibleNoRestrict(d, i) == d
VisibleExcludesCurrent(d, i) == Iloc(d, i)
Visible(d, i) == Iloc(d, i + 1)

\* --------------------------------------------------------------- broker
\* _broker, line 36: self._data['change'] = self._data.close.diff()
BrokerChange(t) == SetCol(t, "change", Diff(t.close))

\* _broker, lines 38-39: for df in self._indicators: self._data[df.columns] = df
RECURSIVE SetIndicatorCols(_, _, _)
SetIndicatorCols(t, inds, k) ==
    IF k > Len(inds) THEN t
    ELSE CHOOSE r \in {SetIndicatorCols(t1, inds, k + 1) :
                          t1 \in {SetCol(t, inds[k].name, inds[k].val)}} : TRUE

\* _broker, line 40: signal.fillna(method='ffill').shift().fillna(0)
PositionNoLag(signal) == Fillna(Ffill(signal), Num(0))
Position(signal) == Fillna(Shift(Ffill(signal)), Num(0))

\* _broker, line 41: change * pos * size
TradingPnl(change, pos, p) == [k \in 1..Len(pos) |-> Mul(Mul(change[k], pos[k]), p.size)]

\* _broker, lines 42-43: close * size * amount * comm * |pos - pos.shift()|.fillna(0)
Fee(close, pos, p) ==
    LET delta == Fillna(AbsSeries(SubSeries(pos, Shift(pos))), Num(0))
    IN [k \in 1..Len(close) |->
          Mul(Mul(Mul(Mul(close[k], p.size), p.amount), p.comm), delta[k])]

\* _broker, lines 44-45: trading_pnl - fee, then fillna(0)
NetPnl(trading, fee) == Fillna(SubSeries(trading, fee), Num(0))

\* _broker, line 47: cumpnl + cash
CapitalNoCash(cumpnl, p) == cumpnl
Capital(cumpnl, p) == [k \in 1..Len(cumpnl) |-> Add(cumpnl[k], p.cash)]

\* _broker, lines 48-50:
\* (capital.shift() <= close * size * amount + fee) & (fee != 0)
OutOfMoneyIgnoringFee(close, capital, fee, p) ==
    LET prior == Shift(capital)
    IN [k \in 1..Len(close) |->
          Bool(Le(prior[k], Add(Mul(Mul(close[k], p.size), p.amount), fee[k])))]
OutOfMoney(close, capital, fee, p) ==
    LET prior == Shift(capital)
    IN [k \in 1..Len(close) |->
          Bool(Le(prior[k], Add(Mul(Mul(close[k], p.size), p.amount), fee[k]))
               /\ ~NumEq(fee[k], Num(0)))]

\* _broker line by line from line 37 on, siglist being what _sig returned;
\* every line reads its operands back from the table
BrokerLineAccumulating(t, line, siglist, inds, p) ==
    CASE line = 37 -> SetCol(t, "signal", siglist)
      [] line = 38 -> SetIndicatorCols(t, inds, 1)
      [] line = 40 -> SetCol(t, "pos", Position(Col(t, "signal")))
      [] line = 41 -> SetCol(t, "trading_pnl",
                             TradingPnl(Col(t, "change"), Col(t, "pos"), p))
      [] line = 42 -> SetCol(t, "fee", Fee(t.close, Col(t, "pos"), p))
      [] line = 44 -> SetCol(t, "netpnl",
                             NetPnl(Col(t, "trading_pnl"), Col(t, "fee")))
      [] line = 46 -> SetCol(t, "cumpnl",
                             IF HasCol(t, "cumpnl")
                             THEN AddSeries(Col(t, "cumpnl"), Cumsum(Col(t, "netpnl")))
                             ELSE Cumsum(Col(t, "netpnl")))
      [] line = 47 -> SetCol(t, "capital", Capital(Col(t, "cumpnl"), p))
      [] line = 48 -> SetCol(t, "outofmoney",
                             OutOfMoney(t.close, Col(t, "capital"), Col(t, "fee"), p))
BrokerLine(t, line, siglist, inds, p) ==
    CASE line = 37 -> SetCol(t, "signal", siglist)
      [] line = 38 -> SetIndicatorCols(t, inds, 1)
      [] line = 40 -> SetCol(t, "pos", Position(Col(t, "signal")))
      [] line = 41 -> SetCol(t, "trading_pnl",
                             TradingPnl(Col(t, "change"), Col(t, "pos"), p))
      [] line = 42 -> SetCol(t, "fee", Fee(t.close, Col(t, "pos"), p))
      [] line = 44 -> SetCol(t, "netpnl",
                             NetPnl(Col(t, "trading_pnl"), Col(t, "fee")))
      [] line = 46 -> SetCol(t, "cumpnl", Cumsum(Col(t, "netpnl")))
      [] line = 47 -> SetCol(t, "capital", Capital(Col(t, "cumpnl"), p))
      [] line = 48 -> SetCol(t, "outofmoney",
                             OutOfMoney(t.close, Col(t, "capital"), Col(t, "fee"), p))
BrokerLines == <<37, 38, 40, 41, 42, 44, 46, 47, 48>>
RECURSIVE BrokerFrom(_, _, _, _, _)
BrokerFrom(t, k, siglist, inds, p) ==
    IF k > Len(BrokerLines) THEN t
    ELSE CHOOSE r \in {BrokerFrom(t1, k + 1, siglist, inds, p) :
                          t1 \in {BrokerLine(t, BrokerLines[k], siglist, inds, p)}} : TRUE
BrokerSettle(t, siglist, inds, p) == BrokerFrom(t, 1, siglist, inds, p)

\* the ledger columns of a table that has them
LedgerCols == <<"signal", "pos", "trading_pnl", "fee", "netpnl", "cumpnl",
                "capital", "outofmoney">>
Ledger(t) == [k \in 1..Len(LedgerCols) |-> Col(t, LedgerCols[k])]

\* ---------------------------------------------------------------- report
Div(x, y) == IF IsNaN(x) \/ IsNaN(y) \/ y[1] = 0 THEN NaN
             ELSE IF y[1] > 0 THEN <<x[1] * y[2], x[2] * y[1]>>
             ELSE <<-(x[1] * y[2]), x[2] * (-y[1])>>
\* len(df[df.pos == 0]) and sum(df.outofmoney)
CountZero(s) == Cardinality({k \in 1..Len(s) : NumEq(s[k], Num(0))})
CountSet(s) == Cardinality({k \in 1..Len(s) : ~NumEq(s[k], Num(0))})

\* run, lines 73-88: the pd.Series of results (Duration is End - Start, with
\* the timestamps counted in days)
Report(t, name) ==
    LET n == NRows(t)
        capital == Col(t, "capital")
        days == t.index[n] - t.index[1]
        flat == CountZero(Col(t, "pos"))
        peak == [k \in 1..n |-> MaxTo(capital, k)]
        dd == [k \in 1..n |-> Sub(Num(1), Div(capital[k], peak[k]))]
    IN [name |-> name,
        valid |-> CountSet(Col(t, "outofmoney")) = 0,
        start |-> t.index[1],
        end |-> t.index[n],
        duration |-> days,
        exposure |-> Div(Num((days - flat) * 100), Num(days)),
        final |-> capital[n],
        peak |-> MaxTo(capital, n),
        return |-> Div(Mul(Sub(capital[n], capital[1]), Num(100)), capital[1]),
        drawdown |-> Neg(Mul(Fillna(<<MaxTo(dd, n)>>, Num(0))[1], Num(100)))]

\* ----------------------------------------------------------------- state
Strats == {"s1", "s2"}
Runs == {"r1", "r2"}
Closes == {100, 105}
EmptyTable == Table(<<>>, <<>>, <<>>)

\* run() arguments: a number, or a value that is no numbers.Number
NonNumber == <<"abc">>
IsNumber(x) == Len(x) = 2
Args(cash, size, comm, amount) ==
    [cash |-> cash, size |-> size, comm |-> comm, amount |-> amount]
DefaultArgs == Args(Num(DefaultCash), Num(DefaultSize), Num(DefaultComm),
                    Num(DefaultAmount))
GoodArgs == {DefaultArgs, Args(Num(1000), Num(2), Num(1), Num(1))}
BadArgs == {[DefaultArgs EXCEPT ![f] = NonNumber] :
               f \in {"cash", "size", "comm", "amount"}}
ChartTypes == {"candle", "pie"}

VARIABLES
    heap,      \* the DataFrame objects: identity -> table
    sbase,     \* strategy -> identity of self.__data, the table held at construction
    sdata,     \* strategy -> self._data: [ref |-> a heap identity] or an object of
               \* its own [ref |-> "own", tbl |-> table]
    sind,      \* strategy -> self._indicators (the list BacktestRun shares)
    sattr,     \* strategy -> the arrays set_indicators stored on self
    skind,     \* strategy -> its class (the periods of its two averages)
    rstrat,    \* BacktestRun -> self._strategy
    rparam,    \* BacktestRun -> cash, size, comm, amount as {args} ({} before the first run)
    rresult,   \* BacktestRun -> self._result as {report} ({} is None)
    runs,      \* BacktestRun -> number of run() calls that returned
    pc,        \* "idle", or the position of the run() in progress inside _sig
    cur,       \* the BacktestRun whose run() is in progress
    i,         \* _sig: the loop index
    d_f,       \* _sig: the copy of the table taken before the loop
    siglist,   \* _sig: the Actions collected so far
    calls,     \* the strategy callbacks invoked by the run in progress (or the
               \* last one), each with the number of rows visible to it
    last,      \* the last call made from outside and how it ended
    xA, xB, xres,  \* a direct call crossover(xA, xB) and its result
    req        \* a call about to be made on a strategy, with its input

vars == <<heap, sbase, sdata, sind, sattr, skind, rstrat, rparam, rresult, runs,
          pc, cur, i, d_f, siglist, calls, last, xA, xB, xres, req>>

\* self._data of strategy s, and the table a BacktestRun holds: BacktestRun
\* takes strategy.data at construction, when it is still the constructor's table
Data(s) == IF sdata[s].ref = "own" THEN sdata[s].tbl ELSE heap[sdata[s].ref]
RunTable(r) == sbase[rstrat[r]]
NoAttr == [fast |-> <<>>, slow |-> <<>>]

\* The state after construction: strategies built over the caller's tables
\* (ids -> table), each BacktestRun built over its strategy.
Constructed(tables, base, kinds, wiring) ==
    /\ heap = tables
    /\ sbase = base
    /\ sdata = [s \in Strats |-> [ref |-> base[s], tbl |-> EmptyTable]]
    /\ sind = [s \in Strats |-> <<>>]
    /\ sattr = [s \in Strats |-> NoAttr]
    /\ skind = kinds
    /\ rstrat = wiring
    /\ rparam = [r \in Runs |-> {}]
    /\ rresult = [r \in Runs |-> {}]
    /\ runs = [r \in Runs |-> 0]
    /\ pc = "idle" /\ cur = "r1" /\ i = 0 /\ d_f = EmptyTable /\ siglist = <<>>
    /\ calls = <<>>
    /\ last = [op |-> "init", run |-> "r1", outcome |-> "ok", own |-> FALSE,
               again |-> FALSE]

NoRequest == [op |-> "none"]
NoCrossoverCall == xA = <<>> /\ xB = <<>> /\ xres = "none" /\ req = NoRequest

\* A validated table: ascending daily timestamps, no missing close
InputTable(closes) ==
    Table([k \in 1..Len(closes) |-> k], [k \in 1..Len(closes) |-> Num(closes[k])], <<>>)
InputTables == UNION {{InputTable(c) : c \in [1..n -> Closes]} : n \in Warmup..MaxBars}

\* Two strategies over one table of the caller, s1 of either class and s2 of
\* the slower one; r1 runs s1, r2 either of them
Init ==
    /\ \E t \in InputTables,
          kinds \in {k \in [Strats -> Kinds] : k["s2"] = [fast |-> 2, slow |-> 3]},
          wiring \in {w \in [Runs -> Strats] : w["r1"] = "s1"} :
          Constructed([id \in {"input"} |-> t], [s \in Strats |-> "input"],
                      kinds, wiring)
    /\ NoCrossoverCall

\* ------------------------------------------------------------------ run()
\* own: run() had returned on this BacktestRun before the call; again: the
\* call is a run() that directly follows a returned run() of the same
\* BacktestRun with the same four arguments
Outcome(op, r, outcome) ==
    [op |-> op, run |-> r, outcome |-> outcome, own |-> runs[r] > 0, again |-> FALSE]

\* run(), lines 63-64: an argument that is no Number raises TypeError
RunTypeErrorAfterStore(r, a) ==
    /\ pc = "idle"
    /\ ~(IsNumber(a.cash) /\ IsNumber(a.size) /\ IsNumber(a.comm) /\ IsNumber(a.amount))
    /\ rparam' = [rparam EXCEPT ![r] = {a}]
    /\ last' = Outcome("run", r, "TypeError")
    /\ UNCHANGED <<heap, sbase, sdata, sind, sattr, skind, rstrat, rresult,
                   runs, pc, cur, i, d_f, siglist, calls, xA, xB, xres, req>>
RunTypeError(r, a) ==
    /\ pc = "idle"
    /\ ~(IsNumber(a.cash) /\ IsNumber(a.size) /\ IsNumber(a.comm) /\ IsNumber(a.amount))
    /\ last' = Outcome("run", r, "TypeError")
    /\ UNCHANGED <<heap, sbase, sdata, sind, sattr, skind, rstrat, rparam, rresult,
                   runs, pc, cur, i, d_f, siglist, calls, xA, xB, xres, req>>

\* run(), lines 65-71, _broker line 36 and _sig up to its loop (lines 189-191)
RunBegin(r, a) ==
    /\ pc = "idle"
    /\ runs["r1"] + runs["r2"] < MaxRuns
    /\ IsNumber(a.cash) /\ IsNumber(a.size) /\ IsNumber(a.comm) /\ IsNumber(a.amount)
    /\ rparam' = [rparam EXCEPT ![r] = {a}]
    /\ heap' = [heap EXCEPT ![RunTable(r)] = BrokerChange(@)]
    /\ d_f' = (IF sdata[rstrat[r]].ref = "own" THEN sdata[rstrat[r]].tbl
               ELSE heap'[sdata[rstrat[r]].ref])
    /\ siglist' = <<NaN, NaN>>
    /\ i' = Warmup
    /\ pc' = "loop"
    /\ cur' = r
    /\ calls' = <<>>
    /\ last' = [Outcome("run", r, "running") EXCEPT
                   !.again = (last.op = "run" /\ last.run = r /\ last.outcome = "ok"
                              /\ rparam[r] = {a})]
    /\ UNCHANGED <<sbase, sdata, sind, sattr, skind, rstrat, rresult, runs,
                   xA, xB, xres, req>>

\* _sig, lines 192-194: the table is cut to bars 0..i and set_indicators() runs
SigSetIndicators ==
    /\ pc = "loop"
    /\ i < NRows(d_f)
    /\ LET s == rstrat[cur]
           st == [data |-> Visible(d_f, i), base |-> heap[sbase[s]],
                  ind |-> sind[s], err |-> ""]
           res == SetIndicators(st, skind[s])
       IN /\ sdata' = [sdata EXCEPT ![s] = [ref |-> "own", tbl |-> res.st.data]]
          /\ sind' = [sind EXCEPT ![s] = res.st.ind]
          /\ calls' = Append(calls, <<"set_indicators", NRows(st.data)>>)
          /\ IF res.st.err = ""
             THEN /\ sattr' = [sattr EXCEPT ![s] = res.attr]
                  /\ pc' = "next"
                  /\ UNCHANGED last
                  /\ UNCHANGED skind
             ELSE /\ pc' = "idle"
                  /\ last' = Outcome("run", cur, res.st.err)
                  /\ skind' = [skind EXCEPT ![s] = Recovered(@)]
                  /\ UNCHANGED sattr
    /\ UNCHANGED <<heap, sbase, rstrat, rparam, rresult, runs, cur, i, d_f,
                   siglist, xA, xB, xres, req>>

\* _sig, line 195: siglist.append(self.next())
SigNext ==
    /\ pc = "next"
    /\ LET s == rstrat[cur]
           action == StrategyNext(skind[s], sattr[s], NRows(Data(s)))
       IN /\ calls' = Append(calls, <<"next", NRows(Data(s))>>)
          /\ IF action = "IndexError" \/ action = "Exception"
             THEN /\ pc' = "idle"
                  /\ last' = Outcome("run", cur, action)
                  /\ skind' = [skind EXCEPT ![s] = Recovered(@)]
                  /\ UNCHANGED <<siglist, i>>
             ELSE /\ siglist' = Append(siglist, action)
                  /\ i' = i + 1
                  /\ pc' = "loop"
                  /\ UNCHANGED <<last, skind>>
    /\ UNCHANGED <<heap, sbase, sdata, sind, sattr, rstrat, rparam, rresult,
                   runs, cur, d_f, xA, xB, xres, req>>

\* _sig returns (line 196); _broker lines 37-50; run(), lines 73-90.  The
\* assignment of line 37 raises ValueError when _sig returned fewer Actions
\* than the table has bars.
RunEnd ==
    /\ pc = "loop"
    /\ i >= NRows(d_f)
    /\ IF Len(siglist) # NRows(heap[RunTable(cur)])
       THEN /\ last' = Outcome("run", cur, "ValueError")
            /\ UNCHANGED <<heap, rresult, runs>>
       ELSE
       \E p \in rparam[cur] :
       \E t \in {BrokerSettle(heap[RunTable(cur)], siglist, sind[rstrat[cur]], p)} :
          /\ heap' = [heap EXCEPT ![RunTable(cur)] = t]
          /\ rresult' = [rresult EXCEPT
                           ![cur] = {Report(t, StrategyName(skind[rstrat[cur]]))}]
          /\ runs' = [runs EXCEPT ![cur] = @ + 1]
          /\ last' = [Outcome("run", cur, "ok") EXCEPT !.again = last.again]
    /\ pc' = "idle"
    /\ UNCHANGED <<sbase, sdata, sind, sattr, skind, rstrat, rparam, cur, i, d_f,
                   siglist, calls, xA, xB, xres, req>>

\* ----------------------------------------------------------------- plot()
\* lines 119, 123, 124: a marker column per kind of signal, the close where
\* the signal has that value and NaN elsewhere
Marker(t, v) ==
    [k \in 1..NRows(t) |->
        IF NumEq(Col(t, "signal")[k], v) THEN t.close[k] ELSE NaN]
PlotColumns(t) ==
    SetCol(SetCol(SetCol(t, "signal1", Marker(t, Long)),
                  "signal0", Marker(t, Offset)),
           "signal-1", Marker(t, Short))

\* plot(), lines 112-121 and on: ValueError on an unknown chart type,
\* _PlotBeforeRun when the table has no signal column, else the figure
Plot(r, type) ==
    /\ pc = "idle"
    /\ IF type # "candle"
       THEN /\ last' = Outcome("plot", r, "ValueError")
            /\ UNCHANGED heap
       ELSE IF ~HasCol(heap[RunTable(r)], "signal")
       THEN /\ last' = Outcome("plot", r, "_PlotBeforeRun")
            /\ UNCHANGED heap
       ELSE /\ last' = Outcome("plot", r, "rendered")
            /\ heap' = [heap EXCEPT ![RunTable(r)] = PlotColumns(@)]
    /\ UNCHANGED <<sbase, sdata, sind, sattr, skind, rstrat, rparam, rresult, runs,
                   pc, cur, i, d_f, siglist, calls, xA, xB, xres, req>>

Next ==
    \/ \E r \in Runs, a \in BadArgs : RunTypeError(r, a)
    \/ \E r \in Runs, a \in GoodArgs : RunBegin(r, a)
    \/ SigSetIndicators
    \/ SigNext
    \/ RunEnd
    \/ \E r \in Runs, type \in ChartTypes : Plot(r, type)

Spec == Init /\ [][Next]_vars

\* ------------------------------------------- two tables, replayed side by side
\* s1 over one table and s2, of the same class, over another of the same
\* length; each BacktestRun runs once with the default arguments
InitCausal ==
    /\ \E t1 \in InputTables, t2 \in InputTables, kind \in Kinds :
          /\ NRows(t1) = NRows(t2)
          /\ Constructed([id \in {"input", "input2"} |-> IF id = "input" THEN t1 ELSE t2],
                         [s \in Strats |-> IF s = "s1" THEN "input" ELSE "input2"],
                         [s \in Strats |-> kind],
                         [r \in Runs |-> IF r = "r1" THEN "s1" ELSE "s2"])
    /\ NoCrossoverCall

RunOnce(r) == runs[r] = 0 /\ RunBegin(r, DefaultArgs)

NextCausal ==
    \/ \E r \in Runs : RunOnce(r)
    \/ SigSetIndicators
    \/ SigNext
    \/ RunEnd

SpecCausal == InitCausal /\ [][NextCausal]_vars

\* --------------------------------------------- settlement of any Action sequence
\* The state in which _sig returns to _broker, for a strategy without
\* indicators that has answered with an arbitrary Action at every bar from
\* bar 2 on: line 36 has run, siglist is complete.
BrokerCloses == {100, 105, 110}
BrokerTables ==
    UNION {{InputTable(c) : c \in [1..n -> BrokerCloses]} : n \in Warmup..MaxBars}
SigLists(n) == {sl \in [1..n -> Actions] : \A k \in 1..Warmup : sl[k] = NaN}
BrokerArgs ==
    {Args(Num(cash), Num(size), Num(comm), Num(1)) :
        cash \in {200, 50000}, size \in {1, 100}, comm \in {0, 1}}
    \cup {Args(Num(50000), Num(1), Num(0), Num(2)), Args(Num(200), Num(1), Num(1), Num(2))}

SigReturned(tables, args) ==
    /\ \E t \in tables, a \in args :
       \E sl \in SigLists(NRows(t)) :
          /\ heap = [id \in {"input"} |-> BrokerChange(t)]
          /\ sbase = [s \in Strats |-> "input"]
          /\ sdata = [s \in Strats |->
                        IF s = "s1" /\ NRows(t) > Warmup
                        THEN [ref |-> "own", tbl |-> BrokerChange(t)]
                        ELSE [ref |-> "input", tbl |-> EmptyTable]]
          /\ rparam = [r \in Runs |-> IF r = "r1" THEN {a} ELSE {}]
          /\ d_f = BrokerChange(t)
          /\ siglist = sl
          /\ i = NRows(t)
    /\ sind = [s \in Strats |-> <<>>]
    /\ sattr = [s \in Strats |-> NoAttr]
    /\ skind = [s \in Strats |-> [fast |-> 1, slow |-> 2]]
    /\ rstrat = [r \in Runs |-> "s1"]
    /\ rresult = [r \in Runs |-> {}]
    /\ runs = [r \in Runs |-> 0]
    /\ pc = "loop" /\ cur = "r1"
    /\ calls = <<>>
    /\ last = Outcome("run", "r1", "running")
    /\ NoCrossoverCall

InitBroker == SigReturned(BrokerTables, BrokerArgs)

NextBroker == RunEnd

SpecBroker == InitBroker /\ [][NextBroker]_vars

\* The same over longer tables, so that bars follow a bar with a fee, for an
\* account that starts with little cash or with plenty
MaxLedger == 5
LedgerTables ==
    UNION {{InputTable(c) : c \in [1..n -> Closes]} : n \in Warmup..MaxLedger}
LedgerArgs ==
    {Args(Num(cash), Num(1), Num(1), Num(1)) : cash \in {200, 300, 50000}}
    \cup {Args(Num(200), Num(1), Num(0), Num(1))}

InitLedger == SigReturned(LedgerTables, LedgerArgs)

SpecLedger == InitLedger /\ [][NextBroker]_vars

\* ------------------------------------------- a strategy whose callbacks raise
\* s1 is of a class whose indicator function or decision raises at some bar;
\* r1 and r2 both run s1, with the default arguments
FaultyKinds ==
    {[fast |-> 1, slow |-> 2, raiseAt |-> n, step |-> st, once |-> o] :
        n \in (Warmup + 1)..MaxBars, st \in {"ind", "next"}, o \in BOOLEAN}

InitFaulty ==
    /\ \E t \in InputTables, kind \in FaultyKinds :
          Constructed([id \in {"input"} |-> t], [s \in Strats |-> "input"],
                      [s \in Strats |-> IF s = "s1" THEN kind
                                        ELSE [fast |-> 1, slow |-> 2]],
                      [r \in Runs |-> "s1"])
    /\ NoCrossoverCall

\* (a run that fails after its last set_indicators() has still recorded two
\* indicators: runs are started while fewer than MaxRuns have recorded theirs)
RunFaulty(r) == Len(sind["s1"]) < 2 * MaxRuns /\ RunBegin(r, DefaultArgs)

NextFaulty ==
    \/ \E r \in Runs : RunFaulty(r)
    \/ SigSetIndicators
    \/ SigNext
    \/ RunEnd

SpecFaulty == InitFaulty /\ [][NextFaulty]_vars

Observations == {NaN, Num(1), Num(2)}
ObsSeries == UNION {[1..n -> Observations] : n \in 0..MaxObs}

InitCrossover ==
    /\ Constructed([id \in {"input"} |-> InputTable(<<100, 105>>)],
                   [s \in Strats |-> "input"],
                   [s \in Strats |-> [fast |-> 1, slow |-> 2]],
                   [r \in Runs |-> "s1"])
    /\ xA \in ObsSeries
    /\ xB \in ObsSeries
    /\ xres = "pending"
    /\ req = NoRequest

CrossoverCall ==
    /\ xres = "pending"
    /\ xres' = Crossover(xA, xB)
    /\ UNCHANGED <<heap, sbase, sdata, sind, sattr, skind, rstrat, rparam, rresult,
                   runs, pc, cur, i, d_f, siglist, calls, last, xA, xB, req>>

NextCrossover == CrossoverCall

SpecCrossover == InitCrossover /\ [][NextCrossover]_vars

\* ------------------------------------------------------ StrategyBase(data)
\* The argument of the constructor: whether it is a DataFrame, whether it has
\* the five OHLCV columns, whether its index is a DatetimeIndex, and its rows
\* (timestamps in any order, repeated or not; closes present or missing)
MaxRows == 3
MaxStamp == 3
RawCloses == {NaN, Num(100)}
RawTables ==
    UNION {{Table(ix, c, <<>>) : ix \in [1..n -> 1..MaxStamp], c \in [1..n -> RawCloses]} :
              n \in 0..MaxRows}
ConstructRequests ==
    {[op |-> "construct", frame |-> f, columns |-> c, datetime |-> d] :
        f \in BOOLEAN, c \in BOOLEAN, d \in BOOLEAN}

\* line 29: data[[...]].isnull().values.any()
AnyNull(t) == \E k \in 1..NRows(t) : IsNaN(t.close[k])

\* line 35: data.index.is_monotonic_increasing, true of an index in which no
\* timestamp is smaller than the one before it (equal ones are allowed)
IsMonotonicIncreasing(index) ==
    \A k \in 2..Len(index) : index[k - 1] <= index[k]

\* line 38: data.sort_index(), a new DataFrame with the rows in ascending
\* order of timestamp; the order among rows of one timestamp is not fixed by
\* the default (unstable) sort
Reorder(t, perm) ==
    [index |-> [k \in 1..NRows(t) |-> t.index[perm[k]]],
     close |-> [k \in 1..NRows(t) |-> t.close[perm[k]]],
     cols |-> [c \in 1..Len(t.cols) |->
                 [name |-> t.cols[c].name,
                  val |-> [k \in 1..NRows(t) |-> t.cols[c].val[perm[k]]]]]]
SortIndex(t) ==
    {Reorder(t, perm) :
        perm \in {f \in [1..NRows(t) -> 1..NRows(t)] :
                     /\ \A a, b \in 1..NRows(t) : a # b => f[a] # f[b]
                     /\ IsMonotonicIncreasing([k \in 1..NRows(t) |-> t.index[f[k]]])}}

Unbuilt == [ref |-> "none", tbl |-> EmptyTable]

InitConstruct ==
    /\ heap \in {[id \in {"input"} |-> t] : t \in RawTables}
    /\ req \in ConstructRequests
    /\ sbase = [s \in Strats |-> "none"]
    /\ sdata = [s \in Strats |-> Unbuilt]
    /\ sind = [s \in Strats |-> <<>>]
    /\ sattr = [s \in Strats |-> NoAttr]
    /\ skind = [s \in Strats |-> [fast |-> 1, slow |-> 2]]
    /\ rstrat = [r \in Runs |-> "s1"]
    /\ rparam = [r \in Runs |-> {}]
    /\ rresult = [r \in Runs |-> {}]
    /\ runs = [r \in Runs |-> 0]
    /\ pc = "idle" /\ cur = "r1" /\ i = 0 /\ d_f = EmptyTable /\ siglist = <<>>
    /\ calls = <<>>
    /\ last = [op |-> "none", run |-> "r1", outcome |-> "pending", own |-> FALSE,
               again |-> FALSE]
    /\ xA = <<>> /\ xB = <<>> /\ xres = "none"

\* __init__, lines 23-43, called with the table "input" of the caller
StrategyInit(s) ==
    /\ req.op = "construct"
    /\ req' = NoRequest
    /\ LET data == heap["input"]
           Rejected(error) ==
               /\ last' = Outcome("init", "r1", error)
               /\ UNCHANGED <<heap, sbase, sdata>>
       IN IF ~req.frame THEN Rejected("TypeError")
          ELSE IF ~req.columns THEN Rejected("ValueError: columns")
          ELSE IF AnyNull(data) THEN Rejected("ValueError: missing")
          ELSE IF ~req.datetime THEN Rejected("ValueError: index")
          ELSE IF IsMonotonicIncreasing(data.index)
          THEN /\ last' = Outcome("init", "r1", "ok")
               /\ sbase' = [sbase EXCEPT ![s] = "input"]
               /\ sdata' = [sdata EXCEPT ![s] = [ref |-> "input", tbl |-> EmptyTable]]
               /\ UNCHANGED heap
          ELSE \E sorted \in SortIndex(data) :
               /\ last' = Outcome("init", "r1", "warning")
               /\ heap' = [id \in {"input", s} |-> IF id = s THEN sorted ELSE data]
               /\ sbase' = [sbase EXCEPT ![s] = s]
               /\ sdata' = [sdata EXCEPT ![s] = [ref |-> s, tbl |-> EmptyTable]]
    /\ UNCHANGED <<sind, sattr, skind, rstrat, rparam, rresult, runs, pc, cur, i,
                   d_f, siglist, calls, xA, xB, xres>>

NextConstruct == StrategyInit("s1")

SpecConstruct == InitConstruct /\ [][NextConstruct]_vars

\* ------------------------------------------------------- ind called directly
\* One call self.ind(func) on a strategy built over a table of N bars that
\* sees n of them (all of them through the constructor's table, or a cut of
\* its own as inside a replay); func raises or returns any of FuncResults
Entry(r, c) == Num(10 * r + c)
Grid(a, b) == [r \in 1..a |-> [c \in 1..b |-> Entry(r, c)]]
FuncResults ==
    {Raised, None, Array(0, <<<<Entry(1, 1)>>>>)}
    \cup {Array1([c \in 1..b |-> Entry(1, c)]) : b \in 0..MaxBars}
    \cup {Array(2, Grid(a, b)) : a \in 1..MaxBars, b \in 1..MaxBars}
    \cup {Frame(Grid(a, b)) : a \in 1..MaxBars, b \in 1..MaxBars}

InitInd ==
    /\ \E t \in InputTables :
          /\ heap = [id \in {"input"} |-> t]
          /\ \E n \in 0..NRows(t) :
                sdata = [s \in Strats |->
                           IF s = "s1" /\ n > 0
                           THEN [ref |-> "own", tbl |-> Iloc(t, n)]
                           ELSE [ref |-> "input", tbl |-> EmptyTable]]
    /\ req \in {[op |-> "ind", name |-> "f", result |-> res, ret |-> {}] :
                   res \in FuncResults}
    /\ sbase = [s \in Strats |-> "input"]
    /\ sind = [s \in Strats |-> <<>>]
    /\ sattr = [s \in Strats |-> NoAttr]
    /\ skind = [s \in Strats |-> [fast |-> 1, slow |-> 2]]
    /\ rstrat = [r \in Runs |-> "s1"]
    /\ rparam = [r \in Runs |-> {}]
    /\ rresult = [r \in Runs |-> {}]
    /\ runs = [r \in Runs |-> 0]
    /\ pc = "idle" /\ cur = "r1" /\ i = 0 /\ d_f = EmptyTable /\ siglist = <<>>
    /\ calls = <<>>
    /\ last = [op |-> "init", run |-> "r1", outcome |-> "ok", own |-> FALSE,
               again |-> FALSE]
    /\ xA = <<>> /\ xB = <<>> /\ xres = "none"

\* ind(), lines 96-131; ret is the value returned, as {value} ({} on an error)
IndDirect(s) ==
    /\ req.op = "ind"
    /\ \E st \in {[data |-> Data(s), base |-> heap[sbase[s]], ind |-> sind[s],
                   err |-> ""]} :
       \E res \in {IndCall(st, req.name, req.result)} :
          /\ sind' = [sind EXCEPT ![s] = res.ind]
          /\ sdata' = (IF res.data = st.data THEN sdata
                       ELSE [sdata EXCEPT ![s] = [ref |-> "own", tbl |-> res.data]])
          /\ last' = Outcome("ind", "r1", IF res.err = "" THEN "returned" ELSE res.err)
          /\ req' = [req EXCEPT !.op = "ind-done",
                                !.ret = IF res.err = "" THEN {Value(req.result)}
                                        ELSE {}]
    /\ UNCHANGED <<heap, sbase, sattr, skind, rstrat, rparam, rresult, runs, pc,
                   cur, i, d_f, siglist, calls, xA, xB, xres>>

NextInd == IndDirect("s1")

SpecInd == InitInd /\ [][NextInd]_vars

\* ================================================================ claims
AtReturn == pc = "loop" /\ i >= NRows(d_f)
Settled == pc = "idle" /\ last.op = "run" /\ last.outcome = "ok"
ExpectedAction(kind, close) ==
    NextAction([fast |-> SMA(close, kind.fast), slow |-> SMA(close, kind.slow)])

\* C1: _sig returns one Action per bar, bars 0 and 1 undefined; the Action of
\* bar i >= 2 is what next() answers right after set_indicators(), once per
\* bar and in ascending order, with exactly bars 0..i visible.
C1_Replay ==
    LET s == rstrat[cur]
        full == heap[RunTable(cur)]
        n == NRows(full)
    IN /\ pc = "next" =>
            /\ NRows(Data(s)) = i + 1
            /\ Data(s).close = Prefix(full.close, i + 1)
            /\ Data(s).index = Prefix(full.index, i + 1)
            /\ Len(siglist) = i
            /\ calls[Len(calls)] = <<"set_indicators", i + 1>>
       /\ AtReturn =>
            /\ Len(siglist) = n
            /\ \A k \in 1..Warmup : siglist[k] = NaN
            /\ \A k \in (Warmup + 1)..n :
                  siglist[k] = ExpectedAction(skind[s], Prefix(full.close, k))
            /\ Len(calls) = 2 * (n - Warmup)
            /\ \A j \in 1..(n - Warmup) :
                  /\ calls[2 * j - 1] = <<"set_indicators", j + Warmup>>
                  /\ calls[2 * j] = <<"next", j + Warmup>>
C1_Witness ==
    /\ AtReturn
    /\ NRows(d_f) >= 4
    /\ \E k \in 1..Len(siglist) : siglist[k] = Long
    /\ \E k \in 1..Len(siglist) : siglist[k] = Short

\* C2: two tables of equal length that agree on every bar before t give the
\* same Action and the same Position at every bar before t.
BothRan == pc = "idle" /\ runs["r1"] > 0 /\ runs["r2"] > 0
SameBars(t) ==
    \A j \in 1..t : /\ heap["input"].close[j] = heap["input2"].close[j]
                    /\ heap["input"].index[j] = heap["input2"].index[j]
C2_Causality ==
    BothRan =>
        \A t \in 0..NRows(heap["input"]) :
            SameBars(t) =>
                \A j \in 1..t :
                    /\ Col(heap["input"], "signal")[j] = Col(heap["input2"], "signal")[j]
                    /\ Col(heap["input"], "pos")[j] = Col(heap["input2"], "pos")[j]
C2_Witness ==
    /\ BothRan
    /\ \E t \in 1..(NRows(heap["input"]) - 1) :
          /\ SameBars(t)
          /\ heap["input"].close[t + 1] # heap["input2"].close[t + 1]
          /\ Col(heap["input"], "signal")[t + 1] # Col(heap["input2"], "signal")[t + 1]
          /\ \E j \in 1..t : Col(heap["input"], "signal")[j] # NaN

\* C3: position[t] is the last defined Action among bars 0..t-1, and 0 when
\* there is none; None keeps the holding, Flatten sets it to 0; bars 0, 1 and
\* 2 hold 0; closes [100,100,105,110] with Long at bar 2 give [0,0,0,1].
LastDefinedBefore(sig, t) ==
    LET D == {j \in 1..(t - 1) : sig[j] # NaN}
    IN IF D = {} THEN Num(0) ELSE sig[CHOOSE j \in D : \A m \in D : m <= j]
ExampleCloses == <<Num(100), Num(100), Num(105), Num(110)>>
ExampleSignal == <<NaN, NaN, Long, NaN>>
RECURSIVE GainTo(_, _, _, _)
GainTo(close, pos, size, k) ==
    IF k <= 1 THEN 0
    ELSE GainTo(close, pos, size, k - 1)
         + (close[k][1] - close[k - 1][1]) * pos[k][1] * size
Crossed(a, b) ==
    /\ Len(a) >= 2 /\ Len(b) >= 2
    /\ Lt(a[Len(a) - 1], b[Len(b) - 1])
    /\ Lt(b[Len(b)], a[Len(a)])
C5_CrossoverTotal ==
    xres \notin {"pending", "none"} =>
        /\ xres \in {"True", "None"}
        /\ xres = "True" <=> Crossed(xA, xB)

\* on series of two or more observations crossover is total and decides by
\* the last two observations alone
Crossover_OnTwoObservations ==
    (xres \notin {"pending", "none"} /\ Len(xA) >= 2 /\ Len(xB) >= 2) =>
        /\ xres \in {"True", "None"}
        /\ xres = "True" <=> Crossed(xA, xB)
        /\ xres = Crossover(SubSeq(xA, Len(xA) - 1, Len(xA)),
                            SubSeq(xB, Len(xB) - 1, Len(xB)))

\* C6: run() called twice in succession on one BacktestRun with the same
\* arguments leaves, after the second call, the ledger and the report of the
\* first call.
C6_Idempotent ==
    [][(pc = "loop" /\ pc' = "idle" /\ last'.outcome = "ok" /\ last'.again) =>
          /\ Ledger(heap'[RunTable(cur)]) = Ledger(heap[RunTable(cur)])
          /\ rresult'[cur] = rresult[cur]]_vars
C6_Witness ==
    /\ Settled
    /\ last.again
    /\ Len(sind[rstrat[cur]]) >= 4
    /\ \E k \in 1..NRows(d_f) : Col(heap[RunTable(cur)], "pos")[k] = Long

\* C7: run() with an argument that is no number raises TypeError and leaves
\* everything as it was: no callback invoked, no column added, indicators,
\* result and stored arguments unchanged.
C7_TypeErrorFirst ==
    [][(pc = "idle" /\ last'.op = "run" /\ last'.outcome = "TypeError") =>
          UNCHANGED <<heap, sdata, sind, sattr, rparam, rresult, runs, calls, pc>>]_vars
C7_Witness ==
    /\ last.op = "run"
    /\ last.outcome = "TypeError"
    /\ last.own
    /\ rresult[last.run] # {}
    /\ rparam[last.run] # {}

\* C8: plot() with a valid chart type on a BacktestRun whose own run() has
\* not returned raises _PlotBeforeRun and never renders, whatever was done
\* with other objects built over the same table.
C8_PlotBeforeRun ==
    (last.op = "plot" /\ ~last.own /\ last.outcome # "ValueError")
        => last.outcome = "_PlotBeforeRun"

\* C9: after any number of returned run() calls over a table of N >= 3 bars,
\* the recorded indicators hold exactly one entry per declared name, the
\* computation against the full table.
C9_OneEntryPerName ==
    (Settled /\ NRows(d_f) > Warmup) =>
        LET s == rstrat[cur]
            inds == sind[s]
            full == heap[RunTable(cur)].close
        IN /\ Len(inds) = 2
           /\ inds[1].name = IndName(skind[s].fast)
           /\ inds[1].val = SMA(full, skind[s].fast)
           /\ inds[2].name = IndName(skind[s].slow)
           /\ inds[2].val = SMA(full, skind[s].slow)

\* C10: after run() returns, the table the caller passed to the constructor
\* has exactly the columns and values it had before.
C10_InputUntouched ==
    Settled => \E t \in InputTables : heap["input"] = t

\* C11: every strategy whose construction succeeded holds a table whose
\* timestamps are strictly ascending (no bar at or before the timestamp of
\* the bar before it) and whose OHLCV values are all present
StrictlyAscending(index) == \A k \in 2..Len(index) : index[k - 1] < index[k]
Built(s) == sbase[s] # "none"
C11_StrictlyAscending ==
    \A s \in Strats :
        Built(s) => /\ StrictlyAscending(heap[sbase[s]].index)
                    /\ ~AnyNull(heap[sbase[s]])

\* What the constructor does establish: a table that is rejected, or held
\* with no timestamp smaller than the one before it and no missing value; an
\* input out of order is held as a sorted copy, with the warning, and the
\* caller's table keeps its order
Construction_Ascending ==
    /\ \A s \in Strats :
          Built(s) => /\ IsMonotonicIncreasing(heap[sbase[s]].index)
                      /\ ~AnyNull(heap[sbase[s]])
    /\ (last.op = "init" /\ Built("s1"))
          => (last.outcome = "warning"
                 <=> ~IsMonotonicIncreasing(heap["input"].index))
Construction_RepeatedTimestampHeld ==
    /\ last.op = "init" /\ last.outcome = "ok" /\ Built("s1")
    /\ ~StrictlyAscending(heap[sbase["s1"]].index)

\* C12: ind() against a visible table of n rows ends in exactly one of three
\* ways: the engine's error naming the indicator when func raises; the shape
\* error reporting both shapes when the value is not array-like or its final
\* dimension after normalisation is not n; the array returned, of final
\* dimension n, otherwise.  On either error nothing is recorded and no column
\* is appended.
HasNoDimension(result) == result.kind = "none" \/ result.ndim = 0
FinalDimension(result) ==
    LET shape == Shape(Value(result)) IN shape[Len(shape)]
OutcomeOfInd(result, n, outcome, ret, recorded) ==
    IF result.kind = "raise" THEN outcome = "RuntimeError" /\ ~recorded
    ELSE IF HasNoDimension(result) \/ FinalDimension(result) # n
    THEN outcome = "ValueError: shape" /\ ~recorded
    ELSE /\ outcome = "returned"
         /\ \E value \in ret : LET shape == Shape(value) IN shape[Len(shape)] = n
IndReturns == req.op = "ind" /\ req'.op = "ind-done"
C12_ThreeOutcomes ==
    [][IndReturns =>
          OutcomeOfInd(req.result, NRows(Data("s1")), last'.outcome, req'.ret,
                       sind' # sind \/ sdata' # sdata)]_vars

\* The three outcomes are those of ind() whenever func raises, returns None,
\* or returns a 1-dimensional array (of any length)
Ind_OnSeries ==
    [][(IndReturns /\ (req.result.kind \in {"raise", "none"} \/ req.result.ndim = 1))
          => OutcomeOfInd(req.result, NRows(Data("s1")), last'.outcome, req'.ret,
                          sind' # sind \/ sdata' # sdata)]_vars
\* a fourth and a fifth way for ind() to end
Ind_ScalarEndsInArgmaxError ==
    /\ req.op = "ind-done" /\ req.result.kind = "array" /\ req.result.ndim = 0
    /\ last.outcome = "ValueError: argmax"
Ind_SquareEndsInDataFrameError ==
    /\ req.op = "ind-done" /\ last.outcome = "ValueError: DataFrame"

\* C13: insolvent[t] is true exactly when fee[t] is nonzero and the prior
\* bar's capital is at most close[t] * size * trade_count + fee[t] (a prior
\* capital equal to that amount is flagged as well), and false at bar 0.  The
\* flag changes nothing: every ledger row, after a flagged bar too, follows
\* the same formulas, and the report is valid if and only if no bar is
\* flagged.
FeeAt(close, pos, p, k) ==
    IF k = 1 THEN 0
    ELSE close[k][1] * p.size[1] * p.amount[1] * p.comm[1]
         * Abs(pos[k][1] - pos[k - 1][1])
RECURSIVE CapitalAt(_, _, _, _)
CapitalAt(close, pos, p, k) ==
    IF k <= 1 THEN p.cash[1]
    ELSE CapitalAt(close, pos, p, k - 1)
         + (close[k][1] - close[k - 1][1]) * pos[k][1] * p.size[1]
         - FeeAt(close, pos, p, k)
Required(close, pos, p, k) ==
    close[k][1] * p.size[1] * p.amount[1] + FeeAt(close, pos, p, k)
SameFormulas(t, p) ==
    LET sig == Col(t, "signal")
        pos == Col(t, "pos")
    IN \A k \in 1..NRows(t) :
          /\ pos[k] = LastDefinedBefore(sig, k)
          /\ Col(t, "fee")[k] = Num(FeeAt(t.close, pos, p, k))
          /\ Col(t, "capital")[k] = Num(CapitalAt(t.close, pos, p, k))
Flagged(t, k) == Col(t, "outofmoney")[k] = Num(1)
C13_Insolvent ==
    Settled =>
        LET t == heap[RunTable(cur)]
            p == CHOOSE a \in rparam[cur] : TRUE
            pos == Col(t, "pos")
        IN /\ \A k \in 1..NRows(t) :
                 Col(t, "outofmoney")[k]
                    = Bool(/\ k > 1
                           /\ FeeAt(t.close, pos, p, k) # 0
                           /\ CapitalAt(t.close, pos, p, k - 1)
                                 <= Required(t.close, pos, p, k))
           /\ ~Flagged(t, 1)
           /\ NRows(t) = NRows(d_f) /\ SameFormulas(t, p)
           /\ \A r \in rresult[cur] :
                 r.valid <=> ~\E k \in 1..NRows(t) : Flagged(t, k)
C13_Witness ==
    /\ Settled
    /\ LET t == heap[RunTable(cur)]
       IN /\ \E k \in 2..(NRows(t) - 1) :
                /\ Flagged(t, k)
                /\ ~Flagged(t, k + 1)
                /\ Col(t, "capital")[k + 1] # Col(t, "capital")[k]
          /\ \E r \in rresult[cur] : ~r.valid

\* C13 as stated: flagged exactly when the fee is nonzero and the prior
\* bar's capital does not cover (is less than) close * size * trade_count + fee
C13_InsolventNotCovered ==
    Settled =>
        LET t == heap[RunTable(cur)]
            p == CHOOSE a \in rparam[cur] : TRUE
            pos == Col(t, "pos")
        IN \A k \in 1..NRows(t) :
              Flagged(t, k)
                 <=> /\ k > 1
                     /\ FeeAt(t.close, pos, p, k) # 0
                     /\ CapitalAt(t.close, pos, p, k - 1)
                           < Required(t.close, pos, p, k)

\* C14: whenever _sig ends, by returning the Actions or by letting through an
\* error of set_indicators() or next() at some bar, the strategy sees again
\* every row of the table it saw when the replay started
SigRaised ==
    /\ pc = "idle" /\ last.op = "run"
    /\ last.outcome \in {"RuntimeError", "IndexError", "Exception"}
SeesAgain(s) ==
    /\ Data(s).index = d_f.index
    /\ Data(s).close = d_f.close
C14_VisibleRestored == (AtReturn \/ SigRaised) => SeesAgain(rstrat[cur])

\* On a return of _sig the strategy does see every row again
Sig_RestoredOnReturn == AtReturn => SeesAgain(rstrat[cur])
\* After an error at a bar before the last one a later replay covers the
\* visible bars only, and run() fails on the length of its signal column
Sig_LaterReplayShorter ==
    /\ pc = "loop"
    /\ NRows(d_f) < NRows(heap[RunTable(cur)])
Sig_LaterRunFails ==
    /\ pc = "idle" /\ last.op = "run" /\ last.outcome = "ValueError"

====
